---- MODULE Spec2Model ----
(***************************************************************************)
(* Model of aim_core.py: MiddlewareManager (module map, discovery, routing) *)
(* ModuleRegistry (registration of class-like descriptors) and             *)
(* IntegrationAnalyzer (the interaction log).                               *)
(*                                                                          *)
(* A Python dict is modelled as a sequence of <<key, value>> entries with   *)
(* unique keys, so that insertion order is part of the state.  A dict whose *)
(* order does not matter (metadata, query, metrics, the attributes of a     *)
(* class) is a TLA+ function from its keys to its values.                   *)
(***************************************************************************)
EXTENDS Integers, Sequences, FiniteSets, TLC

\* ------------------------------------------------------------------ bounds
\* Largest number of route_request / log_interaction calls in a behaviour.
MaxLog == 2

\* ------------------------------------------------------------- input sets
Ids == {"vision-1", "nlp-1"}

Keys == {"capabilities", "requirements", "version"}

EmptyDict == [k \in {} |-> 0]

\* Either no entry for key k, or the entry k -> v for some v in vals.
Opt(k, vals) == {EmptyDict} \cup {k :> v : v \in vals}

\* Metadata a caller may pass to register_module: any subset of the three
\* keys (no validation of the metadata shape is performed).
PartialMetadata ==
    {c @@ r @@ v : c \in Opt("capabilities", {<<"detect">>}),
                   r \in Opt("requirements", {<<"gpu">>}),
                   v \in Opt("version", {"2.0"})}

\* Queries: dicts of which only the keys matter to discover_module.
QuerySet == PartialMetadata

\* Class-like descriptors: the attributes a module class may define.  The
\* identifier may be missing, empty ("" is falsy) or a real identifier.
ModuleClasses ==
    {i @@ c @@ r @@ v : i \in Opt("module_id", Ids \cup {""}),
                        c \in Opt("capabilities", {<<"detect">>}),
                        r \in Opt("requirements", {<<"gpu">>}),
                        v \in Opt("__version__", {"2.0"})}

\* The inputs of the whole-system specifications: two module classes, a class
\* without identifier, and two hand-written metadata dicts.
VisionClass ==
    [module_id |-> "vision-1", capabilities |-> <<"detect">>,
     requirements |-> <<"gpu">>, __version__ |-> "2.0"]

NlpClass == [module_id |-> "nlp-1", capabilities |-> <<"summarize">>]

AnonymousClass == [capabilities |-> <<"detect">>]

ScenarioClasses == {VisionClass, NlpClass, AnonymousClass}

ScenarioMetadata == {EmptyDict, [capabilities |-> <<"summarize">>]}

ScenarioQueries ==
    {EmptyDict,
     [capabilities |-> <<>>],
     [version |-> "1.0"],
     [capabilities |-> <<>>, requirements |-> <<>>]}

\* Optional[Dict] argument of log_interaction: <<>> is None, <<m>> is m.
NoneDict == <<>>

MetricsArgs == {NoneDict, <<EmptyDict>>}

\* None where a string is expected (the default of getattr for module_id).
NoneStr == "<None>"

\* Readings of time.time(): wall-clock, so any reading may follow any other.
Times == {1, 2}

\* A clock that always gives the same reading.
FrozenTime == {1}

NoFault == {FALSE}

AnyFault == BOOLEAN

\* ----------------------------------------------------------------- state
VARIABLES
    modules,        \* MiddlewareManager.modules: seq of <<module_id, metadata>>
    interactions,   \* IntegrationAnalyzer.interactions: seq of records
    call,           \* the last call made: operation and arguments
    ret,            \* outcome of the last call: Return(value) or Raise(exception)
    ncalls,         \* history: number of route_request/log_interaction calls
    inserted        \* history: identifiers in order of first insertion

vars == <<modules, interactions, call, ret, ncalls, inserted>>

\* Outcome of a call.
Return(v) == [value |-> v]

Raise(e) == [raised |-> e]

Raised(r) == "raised" \in DOMAIN r

\* ------------------------------------------------------- dict operations
DictKeys(d) == {d[i][1] : i \in 1..Len(d)}

DictIndex(d, k) == CHOOSE i \in 1..Len(d) : d[i][1] = k

DictGet(d, k) == d[DictIndex(d, k)][2]

\* Faulty variant: d.setdefault(k, {}).update(v), merging into the old value.
DictSetItem_Merge(d, k, v) ==
    IF k \in DictKeys(d)
    THEN [d EXCEPT ![DictIndex(d, k)] = <<k, v @@ DictGet(d, k)>>]
    ELSE Append(d, <<k, v>>)

\* Faulty variant: d.pop(k, None); d[k] = v, moving a present key to the end.
DictSetItem_MoveToEnd(d, k, v) ==
    Append(SelectSeq(d, LAMBDA e : e[1] # k), <<k, v>>)

\* Faulty variant: d = {k: v}, dropping every other entry.
DictSetItem_Clear(d, k, v) == << <<k, v>> >>

\* d[k] = v : replaces the value in place when k is present, else appends.
DictSetItem(d, k, v) ==
    IF k \in DictKeys(d)
    THEN [d EXCEPT ![DictIndex(d, k)] = <<k, v>>]
    ELSE Append(d, <<k, v>>)

\* getattr(obj, name, default)
getattr(obj, name, default) ==
    IF name \in DOMAIN obj THEN obj[name] ELSE default

\* ------------------------------------------------------ MiddlewareManager
\* Faulty variant: the except branch also returns True.
register_module_TrueOnFault(mods, module_id, metadata, fault) ==
    IF fault
    THEN [modules |-> mods, ret |-> TRUE]
    ELSE [modules |-> DictSetItem(mods, module_id, metadata), ret |-> TRUE]

\* register_module: fault = the store write raises an Exception.
register_module(mods, module_id, metadata, fault) ==
    IF fault
    THEN [modules |-> mods, ret |-> FALSE]
    ELSE [modules |-> DictSetItem(mods, module_id, metadata), ret |-> TRUE]

\* Faulty variant: key-value match, metadata.get(q) == query[q].
MatchesAll_KeyValue(metadata, query) ==
    \A q \in DOMAIN query : q \in DOMAIN metadata /\ metadata[q] = query[q]

\* all(q in metadata for q in query)
MatchesAll(metadata, query) ==
    \A q \in DOMAIN query : q \in DOMAIN metadata

\* discover_module: the loop over self.modules.items(), in dict order.
RECURSIVE discover_module(_, _)
discover_module(mods, query) ==
    IF mods = <<>>
    THEN <<>>
    ELSE LET module_id == Head(mods)[1]
             metadata  == Head(mods)[2]
             rest      == discover_module(Tail(mods), query)
         IN  IF MatchesAll(metadata, query)
             THEN <<module_id>> \o rest
             ELSE rest

\* --------------------------------------------------- IntegrationAnalyzer
\* metrics or {}
MetricsOrEmpty(metrics) ==
    IF metrics = NoneDict \/ DOMAIN metrics[1] = {}
    THEN EmptyDict
    ELSE metrics[1]

\* Faulty variant: source and target swapped in the record.
log_interaction_Swapped(log, source, target, metrics, now, fault) ==
    IF fault
    THEN log
    ELSE Append(log, [source    |-> target,
                      target    |-> source,
                      timestamp |-> now,
                      metrics   |-> MetricsOrEmpty(metrics)])

\* Faulty variant: self.interactions.insert(0, interaction).
log_interaction_Prepend(log, source, target, metrics, now, fault) ==
    IF fault
    THEN log
    ELSE << [source    |-> source,
             target    |-> target,
             timestamp |-> now,
             metrics   |-> MetricsOrEmpty(metrics)] >> \o log

\* log_interaction: fault = building or appending the record raises; the
\* exception is caught and logged inside log_interaction, which returns None.
log_interaction(log, source, target, metrics, now, fault) ==
    IF fault
    THEN log
    ELSE Append(log, [source    |-> source,
                      target    |-> target,
                      timestamp |-> now,
                      metrics   |-> MetricsOrEmpty(metrics)])

\* route_request: log_interaction never raises, so the except branch of
\* route_request is never taken.
route_request(log, source, target, now, fault) ==
    [interactions |-> log_interaction(log, source, target, NoneDict, now, fault),
     ret          |-> TRUE]

\* --------------------------------------------------------- ModuleRegistry
_get_capabilities(module_class) == getattr(module_class, "capabilities", <<>>)

_get_requirements(module_class) == getattr(module_class, "requirements", <<>>)

\* Faulty variant: reads the attribute 'version' instead of '__version__'.
_build_metadata_VersionAttr(module_class) ==
    [capabilities |-> _get_capabilities(module_class),
     requirements |-> _get_requirements(module_class),
     version      |-> getattr(module_class, "version", "1.0")]

_build_metadata(module_class) ==
    [capabilities |-> _get_capabilities(module_class),
     requirements |-> _get_requirements(module_class),
     version      |-> getattr(module_class, "__version__", "1.0")]

\* Faulty variant: the validation is skipped.
Not_Never(module_id) == FALSE

\* `not module_id`: None and the empty string are falsy.
Not(module_id) == module_id \in {NoneStr, ""}

\* ---------------------------------------------------------------- actions
Init ==
    /\ modules = <<>>
    /\ interactions = <<>>
    /\ call = [op |-> "init"]
    /\ ret = Return("None")
    /\ ncalls = 0
    /\ inserted = <<>>

FirstInsert(ins, module_id, ok) ==
    IF ok /\ module_id \notin {ins[i] : i \in 1..Len(ins)}
    THEN Append(ins, module_id)
    ELSE ins

\* The keys stored for module_id before a call ({} when it is not registered).
KeysBefore(mods, module_id) ==
    IF module_id \in DictKeys(mods)
    THEN DOMAIN DictGet(mods, module_id)
    ELSE {}

RegisterModule(Faults, Metas) ==
    \E module_id \in Ids, metadata \in Metas, fault \in Faults :
        LET r == register_module(modules, module_id, metadata, fault)
        IN  /\ modules' = r.modules
            /\ ret' = Return(r.ret)
            /\ call' = [op |-> "register_module", module_id |-> module_id,
                        metadata |-> metadata, fault |-> fault,
                        before |-> KeysBefore(modules, module_id)]
            /\ inserted' = FirstInsert(inserted, module_id, r.ret)
            /\ UNCHANGED <<interactions, ncalls>>

DiscoverModule(Queries) ==
    \E query \in Queries :
        /\ ret' = Return(discover_module(modules, query))
        /\ call' = [op |-> "discover_module", query |-> query]
        /\ UNCHANGED <<modules, interactions, ncalls, inserted>>

RouteRequest(Faults, Readings) ==
    \E source \in Ids, target \in Ids, now \in Readings, fault \in Faults :
        LET r == route_request(interactions, source, target, now, fault)
        IN  /\ ncalls < MaxLog
            /\ interactions' = r.interactions
            /\ ret' = Return(r.ret)
            /\ call' = [op |-> "route_request", source |-> source,
                        target |-> target, fault |-> fault]
            /\ ncalls' = ncalls + 1
            /\ UNCHANGED <<modules, inserted>>

LogInteraction(Faults, Readings) ==
    \E source \in Ids, target \in Ids, metrics \in MetricsArgs,
       now \in Readings, fault \in Faults :
        /\ ncalls < MaxLog
        /\ interactions' =
               log_interaction(interactions, source, target, metrics, now, fault)
        /\ ret' = Return("None")
        /\ call' = [op |-> "log_interaction", source |-> source,
                    target |-> target, fault |-> fault]
        /\ ncalls' = ncalls + 1
        /\ UNCHANGED <<modules, inserted>>

\* ModuleRegistry.register: raises ValueError when the class has no
\* module_id; otherwise builds the metadata and registers it, ignoring the
\* boolean register_module returns, and returns the class.
Register(Faults, Classes) ==
    \E module_class \in Classes, fault \in Faults :
        LET module_id == getattr(module_class, "module_id", NoneStr)
        IN  IF Not(module_id)
            THEN /\ ret' = Raise("ValueError")
                 /\ call' = [op |-> "register", module_class |-> module_class,
                             fault |-> FALSE]
                 /\ UNCHANGED <<modules, interactions, ncalls, inserted>>
            ELSE LET metadata == _build_metadata(module_class)
                     r == register_module(modules, module_id, metadata, fault)
                 IN  /\ modules' = r.modules
                     /\ ret' = Return(module_class)
                     /\ call' = [op |-> "register",
                                 module_class |-> module_class, fault |-> fault]
                     /\ inserted' = FirstInsert(inserted, module_id, r.ret)
                     /\ UNCHANGED <<interactions, ncalls>>

\* The whole system in normal operation: no store write or append faults.
Next ==
    \/ RegisterModule(NoFault, ScenarioMetadata)
    \/ DiscoverModule(ScenarioQueries)
    \/ RouteRequest(NoFault, Times)
    \/ LogInteraction(NoFault, Times)
    \/ Register(NoFault, ScenarioClasses)

Spec == Init /\ [][Next]_vars

\* The whole system when a store write or an append may raise (the clock is
\* frozen: the faults, not the timestamps, are what varies here).
FaultNext ==
    \/ RegisterModule(AnyFault, ScenarioMetadata)
    \/ DiscoverModule(ScenarioQueries)
    \/ RouteRequest(AnyFault, FrozenTime)
    \/ LogInteraction(AnyFault, FrozenTime)
    \/ Register(AnyFault, ScenarioClasses)

FaultSpec == Init /\ [][FaultNext]_vars

\* The registry alone, over every metadata dict, query and module class.
RegistryNext ==
    \/ RegisterModule(NoFault, PartialMetadata)
    \/ DiscoverModule(QuerySet)
    \/ Register(NoFault, ModuleClasses)

RegistrySpec == Init /\ [][RegistryNext]_vars

\* ---------------------------------------------------------------- helpers
Range(s) == {s[i] : i \in 1..Len(s)}

IsPrefix(s, t) == Len(s) <= Len(t) /\ SubSeq(t, 1, Len(s)) = s

\* Identifiers of the registered modules whose stored metadata has every key
\* of the query.
Matching(query) ==
    {id \in DictKeys(modules) :
        DOMAIN query \subseteq DOMAIN DictGet(modules, id)}

\* ------------------------------------------------------------- properties
\* C1: for every registry state and every query, discover returns exactly
\* the identifiers of the registered modules whose stored metadata contains
\* every key of the query, values ignored; the empty query returns every
\* registered identifier and an empty registry yields the empty sequence.
C1_DiscoverExact ==
    /\ \A q \in QuerySet :
          LET r == discover_module(modules, q)
          IN  /\ Range(r) = Matching(q)
              /\ Len(r) = Cardinality(Matching(q))
    /\ Range(discover_module(modules, EmptyDict)) = DictKeys(modules)
    /\ call.op = "discover_module" =>
          /\ Range(ret.value) = Matching(call.query)
          /\ Len(ret.value) = Cardinality(Matching(call.query))
          /\ (modules = <<>> => ret.value = <<>>)

\* C1 witness: a non-empty query over two modules returned one of them and
\* left the other out, and the returned module's value for a queried key
\* differs from the value in the query.
C1_Witness ==
    /\ call.op = "discover_module"
    /\ Len(modules) = 2
    /\ Len(ret.value) = 1
    /\ \E k \in DOMAIN call.query :
          DictGet(modules, ret.value[1])[k] # call.query[k]

\* C2: every identifier whose registration has returned true is included in
\* discover({}) in every later state, whatever calls follow.
C2_RegisteredStay ==
    Range(inserted) \subseteq Range(discover_module(modules, EmptyDict))

\* C2 witness: both identifiers were registered, routes were logged, a later
\* registration of a registered identifier returned false, and both are
\* still discovered.
C2_Witness ==
    /\ Len(inserted) = 2
    /\ Len(interactions) = MaxLog
    /\ call.op = "register_module"
    /\ ret.value = FALSE
    /\ Len(discover_module(modules, EmptyDict)) = 2

\* C3: after register(id, m2) the metadata stored for id is exactly m2, the
\* map holds a single entry for id, and no query with a key outside m2
\* returns id (whatever was stored for id before).
C3_Overwrite ==
    call.op = "register_module" =>
        LET id == call.module_id
        IN  /\ Cardinality({i \in 1..Len(modules) : modules[i][1] = id}) = 1
            /\ DictGet(modules, id) = call.metadata
            /\ \A q \in QuerySet :
                  (DOMAIN q \ DOMAIN call.metadata # {})
                      => id \notin Range(discover_module(modules, q))

\* C3 witness: the identifier was registered before with a key that the new
\* metadata does not have.
C3_Witness ==
    /\ call.op = "register_module"
    /\ call.before \ DOMAIN call.metadata # {}
    /\ DOMAIN call.metadata # {}

LastRecord(log) == log[Len(log)]

\* discover gives the same answer to every query of Queries before and
\* after the step.
SameDiscovery(Queries) ==
    \A q \in Queries :
        discover_module(modules', q) = discover_module(modules, q)

\* C4: route(a, b) appends exactly one record with source = a and
\* target = b at the end of the Interaction Log and returns true, for every
\* pair of identifiers and every registry state, registered or not; the log
\* grows by exactly 1.
C4_RouteAppendsOne ==
    [][call'.op = "route_request" =>
          /\ ret' = Return(TRUE)
          /\ Len(interactions') = Len(interactions) + 1
          /\ IsPrefix(interactions, interactions')
          /\ LastRecord(interactions').source = call'.source
          /\ LastRecord(interactions').target = call'.target]_vars

\* C4 witness: a route from an identifier that was never registered to a
\* registered one was logged after an earlier record.
C4_Witness ==
    /\ call.op = "route_request"
    /\ ret = Return(TRUE)
    /\ DictKeys(modules) = {call.target}
    /\ call.source # call.target
    /\ Len(interactions) = 2
    /\ LastRecord(interactions).source = call.source

\* C5: the Interaction Log is append-only and in call order: every route or
\* append call adds its own (source, target) record at the end, every other
\* operation leaves the log as it is, each earlier log is a prefix of each
\* later one, and after N route/append calls the log holds N records.
C5_AppendOnly ==
    [][/\ IsPrefix(interactions, interactions')
       /\ Len(interactions') = ncalls'
       /\ IF call'.op \in {"route_request", "log_interaction"}
          THEN /\ Len(interactions') = Len(interactions) + 1
               /\ LastRecord(interactions').source = call'.source
               /\ LastRecord(interactions').target = call'.target
          ELSE interactions' = interactions]_vars

\* C5 witness: two calls with different pairs were logged in call order, the
\* later one carrying the earlier timestamp, and a registration followed.
C5_Witness ==
    /\ ncalls = 2
    /\ Len(interactions) = 2
    /\ <<interactions[1].source, interactions[1].target>>
           # <<interactions[2].source, interactions[2].target>>
    /\ interactions[2].timestamp < interactions[1].timestamp
    /\ call.op = "register_module"

\* C6: the boolean returned by route reports whether the interaction was
\* logged: route returns true exactly when one record was appended, and
\* false when the append faulted and no record was added.
C6_RouteReportsAppend ==
    [][call'.op = "route_request" =>
          (ret' = Return(TRUE)
              <=> Len(interactions') = Len(interactions) + 1)]_vars

\* C7: discover returns the matching identifiers in order of first
\* insertion into the module map, each at most once; re-registering a
\* present identifier keeps its position.
C7_RegistrationOrder ==
    /\ \A q \in QuerySet :
          LET r == discover_module(modules, q)
          IN  r = SelectSeq(inserted, LAMBDA id : id \in Range(r))
    /\ call.op = "discover_module" =>
          ret.value = SelectSeq(inserted, LAMBDA id : id \in Range(ret.value))

\* C7 witness: the identifier inserted first was re-registered after the
\* second one was inserted, and is still discovered first.
C7_Witness ==
    /\ call.op = "register_module"
    /\ Len(inserted) = 2
    /\ call.module_id = inserted[1]
    /\ call.before # {}
    /\ discover_module(modules, EmptyDict) = inserted

\* C8: ModuleRegistry.register of a class without identifier raises to the
\* caller and changes nothing: module map, Interaction Log and the result of
\* discover for every query are as before the call.
C8_MissingIdentifier ==
    [][(call'.op = "register" /\ "module_id" \notin DOMAIN call'.module_class)
          => /\ Raised(ret')
             /\ modules' = modules
             /\ interactions' = interactions
             /\ SameDiscovery(QuerySet)]_vars

\* C8 witness: the registration of a class without identifier raised while
\* the module map and the Interaction Log were non-empty.
C8_Witness ==
    /\ call.op = "register"
    /\ "module_id" \notin DOMAIN call.module_class
    /\ Raised(ret)
    /\ modules # <<>>
    /\ interactions # <<>>

\* The value the metadata must hold for an attribute of a class.
AttrOrDefault(module_class, attr, default) ==
    IF attr \in DOMAIN module_class THEN module_class[attr] ELSE default

IsBuiltFrom(metadata, module_class) ==
    /\ DOMAIN metadata = Keys
    /\ metadata.capabilities = AttrOrDefault(module_class, "capabilities", <<>>)
    /\ metadata.requirements = AttrOrDefault(module_class, "requirements", <<>>)
    /\ metadata.version = AttrOrDefault(module_class, "__version__", "1.0")

\* C9: for every descriptor, build_metadata returns a record with exactly
\* the keys capabilities, requirements and version, each the descriptor's
\* value if present and else the default (empty sequence, "1.0"); a module
\* registered from a descriptor is returned by discover for every query over
\* those three keys.
C9_BuildMetadata ==
    /\ \A module_class \in ModuleClasses :
          IsBuiltFrom(_build_metadata(module_class), module_class)
    /\ (call.op = "register" /\ ~Raised(ret)) =>
          LET id == call.module_class.module_id
          IN  /\ id \in DictKeys(modules)
              /\ IsBuiltFrom(DictGet(modules, id), call.module_class)
              /\ \A q \in QuerySet :
                    id \in Range(discover_module(modules, q))

\* C9 witness: a class that defines a version and capabilities but no
\* requirements was registered.
C9_Witness ==
    /\ call.op = "register"
    /\ ~Raised(ret)
    /\ DOMAIN call.module_class = {"module_id", "capabilities", "__version__"}
    /\ DictGet(modules, call.module_class.module_id).requirements = <<>>
    /\ DictGet(modules, call.module_class.module_id).version = "2.0"

\* Every entry of the module map other than that of id is kept, and no
\* identifier other than id is added.
OnlyEntryChanged(id) ==
    /\ DictKeys(modules') \subseteq DictKeys(modules) \cup {id}
    /\ \A other \in DictKeys(modules) \ {id} :
          /\ other \in DictKeys(modules')
          /\ DictGet(modules', other) = DictGet(modules, other)

\* C10: register changes only the module map entry of the given identifier
\* and not the Interaction Log; route (and append) changes only the
\* Interaction Log; discover changes neither, so that discover answers every
\* query the same until the next register.
C10_Frame ==
    [][/\ call'.op = "register_module" =>
             /\ OnlyEntryChanged(call'.module_id)
             /\ interactions' = interactions
       /\ call'.op = "register" =>
             /\ OnlyEntryChanged(getattr(call'.module_class, "module_id", NoneStr))
             /\ interactions' = interactions
       /\ call'.op \in {"route_request", "log_interaction"} =>
             modules' = modules
       /\ call'.op = "discover_module" =>
             /\ modules' = modules
             /\ interactions' = interactions
             /\ SameDiscovery(ScenarioQueries)]_vars

\* C10 witness: a registration changed the entry of one identifier while
\* another entry and a logged interaction were present.
C10_Witness ==
    /\ call.op = "register_module"
    /\ ret = Return(TRUE)
    /\ Len(modules) = 2
    /\ interactions # <<>>
    /\ call.before # DOMAIN call.metadata

====
